---- MODULE Spec2Model ----
(***************************************************************************)
(* Maze generation (recursive backtracker), A* search with a recorded      *)
(* trace, and the key-driven replay of that trace, as in A_star_maze.py.   *)
(***************************************************************************)
EXTENDS Integers, Sequences, FiniteSets, TLC

\* ------------------------------------------------------------------ bounds
\* Dimensions of the grids handed to astar in Spec.
MaxRows == 3
MaxCols == 4
\* Dimensions of the grids handed to astar together with arbitrary endpoints.
AnyRows == 2
AnyCols == 2
\* Dimensions of the grids handed to astar in FairSpec.
LiveRows == 3
LiveCols == 3
\* Largest dimensions passed to generate_maze (ROWS, COLS of the script).
MaxGenRows == 5
MaxGenCols == 5

VARIABLES
    rows, cols,         \* dimensions of the grid
    grid,               \* the maze: cell -> 1 (wall) or 0 (path)
    stack,              \* generate_maze: the frames of the recursive visit
    start, goal,        \* astar's endpoints
    open_set,           \* astar: the heap of (f, cell) entries
    came_from,          \* astar: cell -> predecessor
    g_score,            \* astar: cell -> best known cost
    steps,              \* astar: the trace
    path,               \* astar: the returned path, << >> while there is none
    result,             \* "idle", "running", "path" (a path was returned) or "none"
    pc,                 \* position of the program
    step_idx,           \* replay: state['step_idx']
    key,                \* replay: the last key event
    visited_plot,       \* replay: cells drawn as visited
    current_node_plot,  \* replay: cell highlighted as current
    path_plot,          \* replay: cells drawn as the path
    title,              \* replay: title of the grid axes
    text_display        \* replay: content of the text panel

genVars == <<stack>>
astarVars == <<start, goal, open_set, came_from, g_score, steps, path, result>>
replayVars ==
    <<step_idx, key, visited_plot, current_node_plot, path_plot, title, text_display>>
vars == <<rows, cols, grid, pc, genVars, astarVars, replayVars>>

\* ----------------------------------------------------------------- helpers
Abs(x) == IF x < 0 THEN -x ELSE x

Cells(R, C) == (0 .. R - 1) \X (0 .. C - 1)

InBounds(c) == 0 <= c[1] /\ c[1] < rows /\ 0 <= c[2] /\ c[2] < cols

NoCell == <<-9, -9>>

\* ------------------------------------------------------------------- astar
heuristic(a, b) == Abs(a[1] - b[1]) + Abs(a[2] - b[2])

\* Python's order on the tuples (f, (r, c)) kept in the heap.
EntryLess(a, b) ==
    \/ a[1] < b[1]
    \/ a[1] = b[1] /\ a[2][1] < b[2][1]
    \/ a[1] = b[1] /\ a[2][1] = b[2][1] /\ a[2][2] < b[2][2]

\* The heap is kept as the sorted sequence of its entries: heappop returns
\* the least entry, whatever the array layout of the heap. heappush puts e
\* after the entries that are not greater than it.
heappush(h, e) ==
    LET k == Cardinality({i \in 1 .. Len(h) : ~EntryLess(e, h[i])})
    IN  SubSeq(h, 1, k) \o <<e>> \o SubSeq(h, k + 1, Len(h))

\* Variant of f_val that forgets the cost so far.
FValGreedy(tentative_g, h_val) == h_val

\* Line 88.
FVal(tentative_g, h_val) == tentative_g + h_val

\* Variant of the push condition with <= for <.
ImprovesOrEqual(g, n, tentative_g) == n \notin DOMAIN g \/ tentative_g <= g[n]

\* Line 92.
Improves(g, n, tentative_g) == n \notin DOMAIN g \/ tentative_g < g[n]

\* Variant of the neighbour list without (x, y-1).
NeighborsNoLeft(current) ==
    << <<current[1] + 1, current[2]>>, <<current[1] - 1, current[2]>>,
       <<current[1], current[2] + 1>> >>

\* Line 82.
Neighbors(current) ==
    << <<current[1] + 1, current[2]>>, <<current[1] - 1, current[2]>>,
       <<current[1], current[2] + 1>>, <<current[1], current[2] - 1>> >>

\* One iteration of the for loop over the neighbours of current; st holds the
\* heap, the two dictionaries and neighbors_details.
Relax(st, current, n) ==
    IF InBounds(n) /\ grid[n] = 0
    THEN LET tentative_g == st.g[current] + 1
             h_val == heuristic(n, goal)
             f_val == FVal(tentative_g, h_val)
             det == Append(st.details, <<n, tentative_g, h_val, f_val>>)
         IN  IF Improves(st.g, n, tentative_g)
             THEN [g |-> (n :> tentative_g) @@ st.g,
                   open |-> heappush(st.open, <<f_val, n>>),
                   came |-> (n :> current) @@ st.came,
                   details |-> det]
             ELSE [st EXCEPT !.details = det]
    ELSE st

\* The for loop over the neighbours ns; each intermediate state is bound once,
\* as the only element of a set.
RECURSIVE RelaxAll(_, _, _)
RelaxAll(st, current, ns) ==
    IF ns = << >> THEN st
    ELSE CHOOSE out \in {RelaxAll(st1, current, Tail(ns)) :
                            st1 \in {Relax(st, current, Head(ns))}} : TRUE

\* The while loop that walks came_from back from the goal: the cells
\* appended to path, in order.
RECURSIVE WalkBack(_, _)
WalkBack(came, current) ==
    IF current \in DOMAIN came
    THEN <<current>> \o WalkBack(came, came[current])
    ELSE << >>

\* The value of the variable current when that while loop ends.
RECURSIVE WalkEnd(_, _)
WalkEnd(came, current) ==
    IF current \in DOMAIN came THEN WalkEnd(came, came[current]) ELSE current

Reverse(s) == [i \in 1 .. Len(s) |-> s[Len(s) + 1 - i]]

\* Variant of the reconstruction without reversed().
ReconstructPathUnreversed(came, current, s) == Append(WalkBack(came, current), s)

\* Lines 66-70 and 79.
ReconstructPath(came, current, s) == Reverse(Append(WalkBack(came, current), s))

\* Lines 51-56 of astar: the state on entry to the while loop.
AstarEntry(s, g) ==
    /\ start' = s
    /\ goal' = g
    /\ open_set' = << <<0, s>> >>
    /\ came_from' = << >>
    /\ g_score' = (s :> 0)
    /\ steps' = << >>
    /\ path' = << >>
    /\ result' = "running"

\* astar(grid, start, goal) called on any grid of R x C cells with in-bounds,
\* open endpoints.
CallAstarOn(R, C) ==
    /\ pc = "idle"
    /\ rows' = R
    /\ cols' = C
    /\ \E gr \in [Cells(R, C) -> {0, 1}] :
          /\ grid' = gr
          /\ \E s \in Cells(R, C), g \in Cells(R, C) :
                /\ gr[s] = 0
                /\ gr[g] = 0
                /\ AstarEntry(s, g)
    /\ pc' = "astar"
    /\ UNCHANGED <<genVars, replayVars>>

CallAstar == CallAstarOn(MaxRows, MaxCols)

CallAstarLive == CallAstarOn(LiveRows, LiveCols)

\* astar called on a grid of AnyRows x AnyCols cells with any endpoints, in
\* bounds or not, open or not.
CallAstarAny ==
    /\ pc = "idle"
    /\ rows' = AnyRows
    /\ cols' = AnyCols
    /\ grid' \in [Cells(AnyRows, AnyCols) -> {0, 1}]
    /\ \E s \in (-1 .. AnyRows) \X (-1 .. AnyCols),
          g \in (-1 .. AnyRows) \X (-1 .. AnyCols) : AstarEntry(s, g)
    /\ pc' = "astar"
    /\ UNCHANGED <<genVars, replayVars>>

\* Loop iteration that pops the goal: lines 59-79.
AstarGoal ==
    /\ pc = "astar"
    /\ open_set # << >>
    /\ LET current_f == Head(open_set)[1]
           current == Head(open_set)[2]
           current_g == g_score[current]
           current_h == heuristic(current, goal)
       IN  /\ current = goal
           /\ open_set' = Tail(open_set)
           /\ path' = ReconstructPath(came_from, current, start)
           /\ steps' = Append(steps,
                  [node |-> WalkEnd(came_from, current), g |-> current_g,
                   h |-> current_h, f |-> current_f, neighbors |-> << >>,
                   status |-> "Goal Reached!"])
    /\ result' = "path"
    /\ pc' = "done"
    /\ UNCHANGED <<rows, cols, grid, start, goal, came_from, g_score,
                   genVars, replayVars>>

\* Loop iteration that expands a cell other than the goal: lines 59-63, 81-104.
AstarExpand ==
    /\ pc = "astar"
    /\ open_set # << >>
    /\ LET current_f == Head(open_set)[1]
           current == Head(open_set)[2]
           current_g == g_score[current]
           current_h == heuristic(current, goal)
       IN  /\ current # goal
           /\ \E st \in {RelaxAll([g |-> g_score, open |-> Tail(open_set),
                                   came |-> came_from, details |-> << >>],
                                  current, Neighbors(current))} :
                 /\ open_set' = st.open
                 /\ g_score' = st.g
                 /\ came_from' = st.came
                 /\ steps' = Append(steps,
                        [node |-> current, g |-> current_g, h |-> current_h,
                         f |-> current_f, neighbors |-> st.details,
                         status |-> "Searching..."])
    /\ UNCHANGED <<rows, cols, grid, start, goal, path, result, pc,
                   genVars, replayVars>>

\* The heap is empty: line 106.
AstarExhausted ==
    /\ pc = "astar"
    /\ open_set = << >>
    /\ result' = "none"
    /\ pc' = "done"
    /\ UNCHANGED <<rows, cols, grid, start, goal, open_set, came_from, g_score,
                   steps, path, genVars, replayVars>>

\* ----------------------------------------------------------- generate_maze
AllWalls(R, C) == [c \in Cells(R, C) |-> 1]

\* The candidates of get_neighbors(r, c), before the shuffle: the room cells
\* two steps away that are in bounds, each with the unit step towards it.
NeighborCandidates(r, c) ==
    LET directions == << <<0, 2>>, <<0, -2>>, <<2, 0>>, <<-2, 0>> >>
        cand == [i \in 1 .. 4 |->
                    <<r + directions[i][1], c + directions[i][2],
                      directions[i][1] \div 2, directions[i][2] \div 2>>]
    IN  SelectSeq(cand, LAMBDA n : InBounds(n))

\* random.shuffle: any order of the elements of s.
Shuffles(s) ==
    {p \in [1 .. Len(s) -> {s[i] : i \in 1 .. Len(s)}] :
        \A i, j \in 1 .. Len(s) : i # j => p[i] # p[j]}

\* The frame at the top of the recursion is the head of stack.
Top == Head(stack)

\* generate_maze(rows, cols): lines 15 and 36, up to the call visit(0, 0).
CallGenerate ==
    /\ pc = "idle"
    /\ \E R \in 1 .. MaxGenRows, C \in 1 .. MaxGenCols :
          /\ rows' = R
          /\ cols' = C
          /\ grid' = AllWalls(R, C)
    /\ stack' = << [r |-> 0, c |-> 0, at |-> "enter", todo |-> << >>] >>
    /\ pc' = "gen"
    /\ UNCHANGED <<astarVars, replayVars>>

\* visit(r, c), lines 29-30: the cell becomes a path and the shuffled
\* neighbours are fetched.
VisitEnter ==
    /\ pc = "gen"
    /\ stack # << >>
    /\ Top.at = "enter"
    /\ grid' = [grid EXCEPT ![<<Top.r, Top.c>>] = 0]
    /\ \E p \in Shuffles(NeighborCandidates(Top.r, Top.c)) :
          stack' = <<[Top EXCEPT !.at = "loop", !.todo = p]>> \o Tail(stack)
    /\ UNCHANGED <<rows, cols, pc, astarVars, replayVars>>

\* Lines 31-33 on an unvisited neighbour: the wall between is knocked down
\* and visit recurses into the neighbour.
VisitCarve ==
    /\ pc = "gen"
    /\ stack # << >>
    /\ Top.at = "loop"
    /\ Top.todo # << >>
    /\ LET n == Head(Top.todo)
       IN  /\ grid[<<n[1], n[2]>>] = 1
           /\ grid' = [grid EXCEPT ![<<Top.r + n[3], Top.c + n[4]>>] = 0]
           /\ stack' = <<[r |-> n[1], c |-> n[2], at |-> "enter", todo |-> << >>],
                         [Top EXCEPT !.todo = Tail(Top.todo)]>> \o Tail(stack)
    /\ UNCHANGED <<rows, cols, pc, astarVars, replayVars>>

\* Line 31 on a neighbour already visited: nothing happens.
VisitSkip ==
    /\ pc = "gen"
    /\ stack # << >>
    /\ Top.at = "loop"
    /\ Top.todo # << >>
    /\ grid[<<Head(Top.todo)[1], Head(Top.todo)[2]>>] # 1
    /\ stack' = <<[Top EXCEPT !.todo = Tail(Top.todo)]>> \o Tail(stack)
    /\ UNCHANGED <<rows, cols, grid, pc, astarVars, replayVars>>

\* The for loop of visit is over: the call returns.
VisitReturn ==
    /\ pc = "gen"
    /\ stack # << >>
    /\ Top.at = "loop"
    /\ Top.todo = << >>
    /\ stack' = Tail(stack)
    /\ UNCHANGED <<rows, cols, grid, pc, astarVars, replayVars>>

\* visit(0, 0) has returned: lines 39-42.
GenerateReturn ==
    /\ pc = "gen"
    /\ stack = << >>
    /\ grid' = [grid EXCEPT ![<<0, 0>>] = 0, ![<<rows - 1, cols - 1>>] = 0]
    /\ pc' = "gen_done"
    /\ UNCHANGED <<rows, cols, stack, astarVars, replayVars>>

\* -------------------------------------------------------------------- main
\* Lines 210-218: the endpoints are the two corners, forced open, and astar
\* is called on the generated maze.
MainAstar ==
    /\ pc = "gen_done"
    /\ grid' = [grid EXCEPT ![<<0, 0>>] = 0, ![<<rows - 1, cols - 1>>] = 0]
    /\ AstarEntry(<<0, 0>>, <<rows - 1, cols - 1>>)
    /\ pc' = "astar"
    /\ UNCHANGED <<rows, cols, genVars, replayVars>>

\* Lines 220-222 and 140, 198: a path was found and the replay window opens.
MainVisualize ==
    /\ pc = "done"
    /\ result = "path"
    /\ path # << >>
    /\ step_idx' = -1
    /\ text_display' = <<"LABYRINTH MODE">>
    /\ title' = <<"Labyrinth A* Search">>
    /\ pc' = "replay"
    /\ UNCHANGED <<rows, cols, grid, genVars, astarVars, key, visited_plot,
                   current_node_plot, path_plot>>

\* Lines 223-224: no path, nothing is shown.
MainNoPath ==
    /\ pc = "done"
    /\ ~(result = "path" /\ path # << >>)
    /\ pc' = "exit"
    /\ UNCHANGED <<rows, cols, grid, genVars, astarVars, replayVars>>

\* ------------------------------------------------------------------ replay
Keys == {" ", "right", "left", "q"}

\* len(steps) + (len(path) if path else 0), line 190.
MaxSteps == Len(steps) + (IF result = "path" /\ path # << >> THEN Len(path) ELSE 0)

\* Variant of the clamp that stops at max_steps.
ClampOffByOne(idx, max_steps) == IF idx >= max_steps THEN max_steps ELSE idx

\* Lines 191-192.
Clamp(idx, max_steps) == IF idx >= max_steps THEN max_steps - 1 ELSE idx

\* update_display(idx), lines 142-185.
UpdateDisplay(idx) ==
    IF idx < 0
    THEN UNCHANGED <<visited_plot, current_node_plot, path_plot, title, text_display>>
    ELSE IF idx < Len(steps)
    THEN LET step == steps[idx + 1]
         IN  /\ visited_plot' = [i \in 1 .. idx + 1 |-> steps[i].node]
             /\ current_node_plot' = step.node
             /\ text_display' = <<"Step", idx + 1, step.status, step.node, step.g,
                                  step.h, step.f, step.neighbors>>
             /\ title' = <<"Visiting", step.node>>
             /\ UNCHANGED path_plot
    ELSE IF result = "path" /\ path # << >> /\ idx - Len(steps) < Len(path)
    THEN /\ path_plot' = [i \in 1 .. idx - Len(steps) + 1 |-> path[i]]
         /\ title' = <<"Tracing Final Path">>
         /\ text_display' = <<"Search Complete.">>
         /\ UNCHANGED <<visited_plot, current_node_plot>>
    ELSE UNCHANGED <<visited_plot, current_node_plot, path_plot, title, text_display>>

\* on_key(event), lines 187-194.
OnKey ==
    /\ pc = "replay"
    /\ \E k \in Keys :
          /\ key' = k
          /\ IF k \in {" ", "right"}
             THEN /\ step_idx' = Clamp(step_idx + 1, MaxSteps)
                  /\ UpdateDisplay(step_idx')
             ELSE UNCHANGED <<step_idx, visited_plot, current_node_plot,
                              path_plot, title, text_display>>
    /\ UNCHANGED <<rows, cols, grid, pc, genVars, astarVars>>

\* ---------------------------------------------------------- specifications
\* Nothing has been called yet.
Init ==
    /\ pc = "idle"
    /\ rows = 0
    /\ cols = 0
    /\ grid = << >>
    /\ stack = << >>
    /\ start = NoCell
    /\ goal = NoCell
    /\ open_set = << >>
    /\ came_from = << >>
    /\ g_score = << >>
    /\ steps = << >>
    /\ path = << >>
    /\ result = "idle"
    /\ step_idx = -1
    /\ key = "none"
    /\ visited_plot = << >>
    /\ current_node_plot = NoCell
    /\ path_plot = << >>
    /\ title = << >>
    /\ text_display = << >>

\* One call of astar on an arbitrary grid.
Next == CallAstar \/ AstarGoal \/ AstarExpand \/ AstarExhausted

Spec == Init /\ [][Next]_vars

\* One call of astar on an arbitrary smaller grid. The call and the loop are
\* sequential code: a step that can be taken is taken.
NextLive == CallAstarLive \/ AstarGoal \/ AstarExpand \/ AstarExhausted

FairSpec == Init /\ [][NextLive]_vars /\ WF_vars(NextLive)

\* One call of astar with arbitrary endpoints.
NextAny == CallAstarAny \/ AstarGoal \/ AstarExpand \/ AstarExhausted

SpecAny == Init /\ [][NextAny]_vars

\* The script: a maze is generated, searched from corner to corner, and the
\* search is replayed key by key.
NextMain ==
    \/ CallGenerate \/ VisitEnter \/ VisitCarve \/ VisitSkip \/ VisitReturn
    \/ GenerateReturn
    \/ MainAstar \/ AstarGoal \/ AstarExpand \/ AstarExhausted
    \/ MainVisualize \/ MainNoPath
    \/ OnKey

SpecMain == Init /\ [][NextMain]_vars

\* --------------------------------------------- reference definitions (grid)
Adjacent(a, b) == Abs(a[1] - b[1]) + Abs(a[2] - b[2]) = 1

IsOpen(c) == InBounds(c) /\ grid[c] = 0

OpenCells == {c \in Cells(rows, cols) : grid[c] = 0}

OpenNbrs(c) == {n \in OpenCells : Adjacent(c, n)}

\* Breadth-first search, level by level: the distance from the cells of
\* frontier (at distance d) to target, -1 when target cannot be reached.
RECURSIVE BFSLevel(_, _, _, _)
BFSLevel(frontier, seen, target, d) ==
    IF target \in frontier THEN d
    ELSE LET next == UNION {OpenNbrs(c) : c \in frontier} \ seen
         IN  IF next = {} THEN -1
             ELSE BFSLevel(next, seen \cup next, target, d + 1)

BFSDist(s, t) == BFSLevel({s}, {s}, t, 0)

RECURSIVE ReachClosure(_)
ReachClosure(seen) ==
    LET next == UNION {OpenNbrs(c) : c \in seen} \ seen
    IN  IF next = {} THEN seen ELSE ReachClosure(seen \cup next)

ReachableFrom(s) == ReachClosure({s})

TraceNodes == {steps[i].node : i \in 1 .. Len(steps)}

ValidEndpoints == IsOpen(start) /\ IsOpen(goal)

\* ------------------------------------------------------------------ claims

\* C1: when a path of open cells joins start and goal, astar returns a path
\* whose number of edges is the breadth-first distance from start to goal.
C1_Optimal ==
    (pc = "done" /\ BFSDist(start, goal) >= 0) =>
        (result = "path" /\ Len(path) - 1 = BFSDist(start, goal))

\* A returned shortest path that has to leave the Manhattan rectangle.
C1_Witness ==
    /\ pc = "done"
    /\ result = "path"
    /\ Len(path) - 1 >= heuristic(start, goal) + 2

C4_NoPath ==
    (pc = "done" /\ BFSDist(start, goal) < 0) =>
        /\ result = "none"
        /\ path = << >>
        /\ steps # << >>
        /\ TraceNodes = ReachableFrom(start)

C4_Witness ==
    /\ pc = "done"
    /\ result = "none"
    /\ Cardinality(ReachableFrom(start)) >= 4
    /\ TraceNodes = ReachableFrom(start)

\* C5: when the goal is popped, the last record of the trace is the goal's:
\* node = goal, status goal-reached, no neighbours, and it is the only record
\* with that status.
C5_GoalRecord ==
    result = "path" =>
        LET last == steps[Len(steps)]
        IN  /\ last.node = goal
            /\ last.status = "Goal Reached!"
            /\ last.neighbors = << >>
            /\ \A i \in 1 .. Len(steps) - 1 : steps[i].status # "Goal Reached!"

\* C6: no cell is the node of two Searching records of the trace.
C6_NoDuplicateSearching ==
    \A i, j \in 1 .. Len(steps) :
        (i # j /\ steps[i].status = "Searching..." /\ steps[j].status = "Searching...")
            => steps[i].node # steps[j].node

\* C7: every record has f = g + h with h the Manhattan distance of its node to
\* the goal; the first record has g = 0 and f = h(start, goal); the
\* goal-reached record has h = 0 and f = g = the number of edges of the path.
C7_FIsGPlusH ==
    /\ \A i \in 1 .. Len(steps) :
          /\ steps[i].f = steps[i].g + steps[i].h
          /\ steps[i].h = heuristic(steps[i].node, goal)
    /\ steps # << >> =>
          (steps[1].g = 0 /\ steps[1].f = heuristic(start, goal))
    /\ result = "path" =>
          LET last == steps[Len(steps)]
          IN  last.h = 0 /\ last.f = last.g /\ last.g = Len(path) - 1

\* C8: a call with a start or goal that is out of bounds or on a wall is
\* rejected with InvalidEndpoint: no trace record, no path.
C8_InvalidEndpointRejected ==
    ~ValidEndpoints =>
        /\ steps = << >>
        /\ path = << >>
        /\ result # "path"
        /\ result # "none"

\* The entries pushed by a loop iteration are as many as the cells whose best
\* g the iteration strictly improved (or set for the first time).
PushOnlyOnImprovement ==
    (pc = "astar" /\ pc' = "astar") =>
        Len(open_set') - (Len(open_set) - 1) =
            Cardinality({c \in DOMAIN g_score' :
                            c \notin DOMAIN g_score \/ g_score'[c] < g_score[c]})

\* Entries pushed so far: one per record, plus those still in the heap.
PushesBounded ==
    pc = "astar" =>
        Len(steps) + Len(open_set) <= Cardinality(OpenCells) * Cardinality(OpenCells)

\* C9: the astar loop terminates; an entry is pushed only on a strict
\* improvement of a cell's best g, so the pushes are bounded in the number of
\* open cells.
C9_Terminates ==
    /\ <>(pc = "done")
    /\ [][PushOnlyOnImprovement]_vars
    /\ []PushesBounded

\* The heap emptied on an unreachable goal after a search of several cells.
C9_Witness ==
    /\ pc = "done"
    /\ result = "none"
    /\ open_set = << >>
    /\ Len(steps) >= 4

RoomCells == {c \in Cells(rows, cols) : c[1] % 2 = 0 /\ c[2] % 2 = 0}

CellLess(a, b) == a[1] < b[1] \/ (a[1] = b[1] /\ a[2] < b[2])

\* The passages between 4-adjacent open cells, each counted once.
OpenEdges == {e \in OpenCells \X OpenCells : Adjacent(e[1], e[2]) /\ CellLess(e[1], e[2])}

\* C3: the open cells of a grid returned by generate_maze, for any positive
\* dimensions, are 4-connected and acyclic: every room cell is open and the
\* passages form a spanning tree.
C3_PerfectMaze ==
    pc = "gen_done" =>
        /\ RoomCells \subseteq OpenCells
        /\ ReachableFrom(<<0, 0>>) = OpenCells
        /\ Cardinality(OpenEdges) = Cardinality(OpenCells) - 1

AdvanceKeys == {" ", "right"}

\* What a step of the program may do to the replay cursor and the display.
C10_Step ==
    /\ step_idx <= step_idx'
    /\ step_idx' <= step_idx + 1
    /\ step_idx' # step_idx => (pc = "replay" /\ key' \in AdvanceKeys)
    /\ -1 <= step_idx'
    /\ step_idx' <= Len(steps') + Len(path') - 1
    /\ (pc = "replay" /\ step_idx = Len(steps) + Len(path) - 1) => step_idx' = step_idx
    /\ (pc = "replay" /\ key' \in AdvanceKeys) =>
          /\ 0 <= step_idx'
          /\ step_idx' < Len(steps) =>
                /\ visited_plot' = [i \in 1 .. step_idx' + 1 |-> steps[i].node]
                /\ current_node_plot' = steps[step_idx' + 1].node
                /\ text_display'[2] = step_idx' + 1
                /\ text_display'[3] = steps[step_idx' + 1].status
          /\ step_idx' >= Len(steps) =>
                path_plot' = SubSeq(path, 1, step_idx' - Len(steps) + 1)

\* C10: the replay cursor stays in -1 .. len(steps) + len(path) - 1, moves only
\* on an advance key, never back and by at most one, stays at the last value
\* once there; below len(steps) it shows the trace records in order, from
\* len(steps) on the successive prefixes of the path.
C10_Replay == [][C10_Step]_vars

\* The whole replay was stepped through and one more advance key was pressed.
C10_Witness ==
    /\ pc = "replay"
    /\ key = "right"
    /\ step_idx = Len(steps) + Len(path) - 1
    /\ path_plot = path
    /\ Len(visited_plot) = Len(steps)
    /\ Len(steps) >= 3

====
